---------------------------- MODULE Spec2Model ----------------------------
(***************************************************************************)
(* Model of datasets/hdf5.py: the sliding-window index generator           *)
(* (_gen_indices), the index-to-slice grid builder (_build_slices) and the *)
(* life cycle of HDF5Dataset / AugmentedHDF5Dataset (__init__,             *)
(* __getitem__, __len__, close, get_transforms).                           *)
(*                                                                         *)
(* Three specifications share the variables:                               *)
(*   SpecGen   one generator object of _gen_indices, advanced by next()    *)
(*   SpecBuild one call of _build_slices, advanced one generator step at   *)
(*             a time                                                      *)
(*   SpecData  one dataset object: construction, indexed access, len,      *)
(*             close                                                       *)
(***************************************************************************)
EXTENDS Integers, Sequences, FiniteSets, TLC

VARIABLES gen, out, bld, ds, handles, ret

vars == <<gen, out, bld, ds, handles, ret>>

(***************************************************************************)
(* Bounds of the explored inputs.                                          *)
(***************************************************************************)
GenMaxAxis == 8

GenMaxStride == 9

BuildMaxAxis == 3

BuildMaxPatch == 2

BuildMaxStride == 2

DataMaxExtra == 1

DataMaxStride == 2

IdxSlack == 1

RngMod == 8

(***************************************************************************)
(* _gen_indices(i, k, s): a Python generator.  Nothing of its body runs    *)
(* when it is created; the assert runs on the first next().  pc is where   *)
(* the generator is suspended:                                             *)
(*   "start"  created, body not entered                                    *)
(*   "loop"   suspended at `yield j` inside the for loop                   *)
(*   "tail"   suspended at `yield i - k`                                   *)
(*   "done"   body returned (StopIteration)                                *)
(*   "raised" the assert failed (AssertionError)                           *)
(* j is the loop variable of `for j in range(0, i - k + 1, s)`; it is      *)
(* unbound while pc = "start" (the field then holds 0 and is not read).    *)
(* The stride s is positive: range() is not modelled for s <= 0.           *)
(***************************************************************************)
NewGen(i, k, s) == [i |-> i, k |-> k, s |-> s, pc |-> "start", j |-> 0]

\* A variant of the tail test that compares with <=: the tail window is
\* yielded although the stride sequence already ended on i - k.
GenAfterLoopInclusive(g) ==
    IF g.j + g.k <= g.i
    THEN [gen |-> [g EXCEPT !.pc = "tail"], outcome |-> "yield", val |-> g.i - g.k]
    ELSE [gen |-> [g EXCEPT !.pc = "done"], outcome |-> "stop", val |-> 0]

\* `if j + k < i: yield i - k`, reached when range() is exhausted.
GenAfterLoop(g) ==
    IF g.j + g.k < g.i
    THEN [gen |-> [g EXCEPT !.pc = "tail"], outcome |-> "yield", val |-> g.i - g.k]
    ELSE [gen |-> [g EXCEPT !.pc = "done"], outcome |-> "stop", val |-> 0]

\* A variant of the first next() without the assert: on i < k the range
\* is empty and the generator just ends.
GenFirstUnchecked(g) ==
    IF ~(g.i >= g.k)
    THEN [gen |-> [g EXCEPT !.pc = "done"], outcome |-> "stop", val |-> 0]
    ELSE [gen |-> [g EXCEPT !.pc = "loop", !.j = 0], outcome |-> "yield", val |-> 0]

\* The first next(): `assert i >= k`, then the first element of
\* range(0, i - k + 1, s), which is 0 (the range is not empty when i >= k).
GenFirst(g) ==
    IF ~(g.i >= g.k)
    THEN [gen |-> [g EXCEPT !.pc = "raised"], outcome |-> "raise", val |-> 0]
    ELSE [gen |-> [g EXCEPT !.pc = "loop", !.j = 0], outcome |-> "yield", val |-> 0]

\* A variant of the resumed loop that never yields the tail window.
GenResumeNoTail(g) ==
    IF g.j + g.s < g.i - g.k + 1
    THEN [gen |-> [g EXCEPT !.j = g.j + g.s], outcome |-> "yield", val |-> g.j + g.s]
    ELSE [gen |-> [g EXCEPT !.pc = "done"], outcome |-> "stop", val |-> 0]

\* next() on a generator suspended in the for loop: the next element of
\* the range, or the code after the loop.
GenResume(g) ==
    IF g.j + g.s < g.i - g.k + 1
    THEN [gen |-> [g EXCEPT !.j = g.j + g.s], outcome |-> "yield", val |-> g.j + g.s]
    ELSE GenAfterLoop(g)

\* One next() on the generator: the generator after it, what next() did
\* ("yield", "stop" for StopIteration, "raise" for AssertionError) and the
\* value yielded.
GenNext(g) ==
    CASE g.pc = "start" -> GenFirst(g)
      [] g.pc = "loop" -> GenResume(g)
      [] g.pc = "tail" ->
           [gen |-> [g EXCEPT !.pc = "done"], outcome |-> "stop", val |-> 0]
      [] OTHER -> [gen |-> g, outcome |-> "stop", val |-> 0]

GenFinished(g) == g.pc \in {"done", "raised"}

(***************************************************************************)
(* Idle values of the variables a specification does not use.              *)
(***************************************************************************)
IdleGen == NewGen(1, 1, 1)

IdleBld == [pc |-> "idle"]

IdleDs == [state |-> "idle"]

IdleRet == [op |-> "none"]

(***************************************************************************)
(* SpecGen: a generator created with any (i, k, s) of the bounded sets,    *)
(* then driven by next() until it stops or raises.  out collects what it   *)
(* yields.                                                                 *)
(***************************************************************************)
GenInit ==
    /\ gen \in {NewGen(i, k, s) : i \in 1..GenMaxAxis, k \in 1..GenMaxAxis,
                                  s \in 1..GenMaxStride}
    /\ out = <<>>
    /\ bld = IdleBld
    /\ ds = IdleDs
    /\ handles = <<>>
    /\ ret = IdleRet

GenYield ==
    /\ ~GenFinished(gen)
    /\ GenNext(gen).outcome = "yield"
    /\ gen' = GenNext(gen).gen
    /\ out' = Append(out, GenNext(gen).val)
    /\ UNCHANGED <<bld, ds, handles, ret>>

GenStop ==
    /\ ~GenFinished(gen)
    /\ GenNext(gen).outcome = "stop"
    /\ gen' = GenNext(gen).gen
    /\ UNCHANGED <<out, bld, ds, handles, ret>>

GenRaise ==
    /\ ~GenFinished(gen)
    /\ GenNext(gen).outcome = "raise"
    /\ gen' = GenNext(gen).gen
    /\ UNCHANGED <<out, bld, ds, handles, ret>>

GenNextAction == GenYield \/ GenStop \/ GenRaise

SpecGen == GenInit /\ [][GenNextAction]_vars

(***************************************************************************)
(* The window starts along one axis in closed form, for the statements     *)
(* below: the multiples m*s with m*s + k <= i, then i - k when the last    *)
(* multiple is smaller.                                                    *)
(***************************************************************************)
RegularCount(i, k, s) == ((i - k) \div s) + 1

RegularStarts(i, k, s) == [m \in 1..RegularCount(i, k, s) |-> (m - 1) * s]

LastRegular(i, k, s) == (RegularCount(i, k, s) - 1) * s

ExpectedStarts(i, k, s) ==
    IF LastRegular(i, k, s) < i - k
    THEN Append(RegularStarts(i, k, s), i - k)
    ELSE RegularStarts(i, k, s)

Covered(starts, k, p) == \E n \in 1..Len(starts) : starts[n] <= p /\ p < starts[n] + k

(***************************************************************************)
(* _build_slices(shape, patch_shape, stride_shape).  A slice(a, b) is the  *)
(* pair <<a, b>>; a slice tuple is a sequence of pairs; the dict `slices`  *)
(* is a function from its keys.  The three nested for loops are advanced   *)
(* one next() at a time; pc names the generator the loop nest is about to  *)
(* call next() on ("z", "y", "x"), or how the call ended: "done" (return   *)
(* slices) or "raised" (an exception left the function, nothing is         *)
(* returned).                                                              *)
(***************************************************************************)
ChannelCounts == {1, 3}

NoSlices == <<>>

Slice(a, b) == <<a, b>>

\* The spatial part of a 3- or 4-axis shape (lines 123-126).
Spatial(shape) == IF Len(shape) = 4 THEN SubSeq(shape, 2, 4) ELSE shape

\* A variant of slice_idx with the Z and Y slices in each other's place.
SliceIdxSwapped(b, x) ==
    LET k == b.patch
        sp == <<Slice(b.y, b.y + k[2]), Slice(b.z, b.z + k[1]), Slice(x, x + k[3])>>
    IN  IF Len(b.shape) = 4 THEN <<Slice(0, b.shape[1])>> \o sp ELSE sp

\* slice_idx for the window starting at (b.z, b.y, x) (lines 137-143).
SliceIdx(b, x) ==
    LET k == b.patch
        sp == <<Slice(b.z, b.z + k[1]), Slice(b.y, b.y + k[2]), Slice(x, x + k[3])>>
    IN  IF Len(b.shape) = 4 THEN <<Slice(0, b.shape[1])>> \o sp ELSE sp

\* The call up to and including `z_steps = _gen_indices(i_z, k_z, s_z)`:
\* the tuple unpackings raise ValueError on a wrong number of entries.
BuildStart(shape, patch, stride) ==
    LET unpacks == Len(shape) \in {3, 4} /\ Len(patch) = 3 /\ Len(stride) = 3
        b0 == [shape |-> shape, patch |-> patch, stride |-> stride,
               pc |-> "raised", error |-> "ValueError",
               zg |-> IdleGen, yg |-> IdleGen, xg |-> IdleGen,
               z |-> 0, y |-> 0, slices |-> NoSlices, idx |-> 0]
    IN  IF ~unpacks THEN b0
        ELSE [b0 EXCEPT !.pc = "z", !.error = "",
                        !.zg = NewGen(Spatial(shape)[1], patch[1], stride[1])]

\* `for z in z_steps:` asks z_steps for its next element.
BuildZ(b) ==
    LET r == GenNext(b.zg)
    IN  CASE r.outcome = "raise" -> [b EXCEPT !.pc = "raised", !.error = "AssertionError",
                                              !.zg = r.gen]
          [] r.outcome = "stop"  -> [b EXCEPT !.pc = "done", !.zg = r.gen]
          [] OTHER -> [b EXCEPT !.pc = "y", !.zg = r.gen, !.z = r.val,
                                !.yg = NewGen(Spatial(b.shape)[2], b.patch[2], b.stride[2])]

\* `for y in y_steps:` asks y_steps for its next element.
BuildY(b) ==
    LET r == GenNext(b.yg)
    IN  CASE r.outcome = "raise" -> [b EXCEPT !.pc = "raised", !.error = "AssertionError",
                                              !.yg = r.gen]
          [] r.outcome = "stop"  -> [b EXCEPT !.pc = "z", !.yg = r.gen]
          [] OTHER -> [b EXCEPT !.pc = "x", !.yg = r.gen, !.y = r.val,
                                !.xg = NewGen(Spatial(b.shape)[3], b.patch[3], b.stride[3])]

\* `for x in x_steps:` asks x_steps for its next element; the loop body
\* stores the slice tuple under idx and increments idx.
BuildX(b) ==
    LET r == GenNext(b.xg)
    IN  CASE r.outcome = "raise" -> [b EXCEPT !.pc = "raised", !.error = "AssertionError",
                                              !.xg = r.gen]
          [] r.outcome = "stop"  -> [b EXCEPT !.pc = "y", !.xg = r.gen]
          [] OTHER -> [b EXCEPT !.xg = r.gen,
                                !.slices = (b.idx :> SliceIdx(b, r.val)) @@ b.slices,
                                !.idx = b.idx + 1]

BuildStep(b) ==
    CASE b.pc = "z" -> BuildZ(b)
      [] b.pc = "y" -> BuildY(b)
      [] b.pc = "x" -> BuildX(b)
      [] OTHER -> b

BuildFinished(b) == b.pc \in {"done", "raised"}

\* The whole call: the loop nest run until it returns or raises.
RECURSIVE BuildRun(_)
BuildRun(b) == IF BuildFinished(b) THEN b ELSE BuildRun(BuildStep(b))

\* What the caller of _build_slices gets: the dict, or the exception.
BuildSlices(shape, patch, stride) ==
    LET b == BuildRun(BuildStart(shape, patch, stride))
    IN  IF b.pc = "done"
        THEN [raised |-> FALSE, error |-> "", slices |-> b.slices]
        ELSE [raised |-> TRUE, error |-> b.error, slices |-> NoSlices]

(***************************************************************************)
(* SpecBuild: one call of _build_slices on any 3- or 4-axis shape, patch   *)
(* and stride of the bounded sets, advanced one next() at a time.          *)
(***************************************************************************)
Triples(n) == {<<a, b, c>> : a \in 1..n, b \in 1..n, c \in 1..n}

BuildShapes ==
    Triples(BuildMaxAxis)
        \cup {<<c>> \o sp : c \in ChannelCounts, sp \in Triples(BuildMaxAxis)}

BuildInit ==
    /\ bld \in {BuildStart(shape, patch, stride) :
                   shape \in BuildShapes, patch \in Triples(BuildMaxPatch),
                   stride \in Triples(BuildMaxStride)}
    /\ gen = IdleGen
    /\ out = <<>>
    /\ ds = IdleDs
    /\ handles = <<>>
    /\ ret = IdleRet

BuildNextZ ==
    /\ bld.pc = "z"
    /\ bld' = BuildZ(bld)
    /\ UNCHANGED <<gen, out, ds, handles, ret>>

BuildNextY ==
    /\ bld.pc = "y"
    /\ bld' = BuildY(bld)
    /\ UNCHANGED <<gen, out, ds, handles, ret>>

BuildNextX ==
    /\ bld.pc = "x"
    /\ bld' = BuildX(bld)
    /\ UNCHANGED <<gen, out, ds, handles, ret>>

BuildNextAction == BuildNextZ \/ BuildNextY \/ BuildNextX

SpecBuild == BuildInit /\ [][BuildNextAction]_vars

(***************************************************************************)
(* The transform pipelines.  A pipeline (Compose) is the sequence of its   *)
(* steps; a step is its name, whether it holds a RandomState, and that     *)
(* state.  The steps themselves live in augment.transforms: what a         *)
(* stochastic step does with its RandomState on one call is modelled from  *)
(* the specification (one draw per call, the decision a function of the    *)
(* state drawn).                                                           *)
(***************************************************************************)
Seed == 47

MinDepth == 16

MinHW == 64

\* np.random.RandomState(seed)
RandomState(seed) == seed % RngMod

\* One draw from a RandomState: the state after it.
Draw(state) == (5 * state + 3) % RngMod

\* The decision a stochastic step takes from the state it drew: the flip
\* axis (of 3) or the number of quarter turns (of 4).
Decision(name, state) == IF name = "RandomFlip" THEN state % 3 ELSE state % 4

Fixed(name) == [name |-> name, random |-> FALSE, state |-> 0]

Seeded(name, seed) == [name |-> name, random |-> TRUE, state |-> RandomState(seed)]

\* A pipeline called on one patch: every stochastic step draws once.
PipelineAfter(p) ==
    [n \in 1..Len(p) |-> IF p[n].random THEN [p[n] EXCEPT !.state = Draw(p[n].state)]
                         ELSE p[n]]

\* The decisions the call applies to the patch, in step order.
PipelineDecisions(p) ==
    [n \in 1..Len(p) |-> IF p[n].random
                         THEN <<p[n].name, Decision(p[n].name, Draw(p[n].state))>>
                         ELSE <<p[n].name, 0>>]

\* HDF5Dataset.get_transforms
PlainGetTransforms(phase) ==
    [raw |-> <<Fixed("Normalize"), Fixed("ToTensor")>>,
     label |-> <<Fixed("ToTensor")>>]

\* A variant of AugmentedHDF5Dataset.get_transforms that seeds the label
\* pipeline differently from the raw pipeline.
AugGetTransformsOwnSeed(phase) ==
    IF phase = "train"
    THEN [raw |-> <<Fixed("Normalize"), Seeded("RandomFlip", Seed),
                    Seeded("RandomRotate90", Seed), Fixed("ToTensor")>>,
          label |-> <<Seeded("RandomFlip", Seed + 1), Seeded("RandomRotate90", Seed + 1),
                      Fixed("ToTensor")>>]
    ELSE [raw |-> <<Fixed("Normalize"), Fixed("ToTensor")>>,
          label |-> <<Fixed("ToTensor")>>]

\* AugmentedHDF5Dataset.get_transforms
AugGetTransforms(phase) ==
    IF phase = "train"
    THEN [raw |-> <<Fixed("Normalize"), Seeded("RandomFlip", Seed),
                    Seeded("RandomRotate90", Seed), Fixed("ToTensor")>>,
          label |-> <<Seeded("RandomFlip", Seed), Seeded("RandomRotate90", Seed),
                      Fixed("ToTensor")>>]
    ELSE [raw |-> <<Fixed("Normalize"), Fixed("ToTensor")>>,
          label |-> <<Fixed("ToTensor")>>]

\* self.get_transforms(phase): dispatch on the class of the instance.
GetTransforms(variant, phase) ==
    IF variant = "augmented" THEN AugGetTransforms(phase) ELSE PlainGetTransforms(phase)

(***************************************************************************)
(* HDF5Dataset.  handles is the sequence of h5py.File objects opened so    *)
(* far: a File is the path it was opened on, whether it is open, and how   *)
(* often close() was called on it; a File is referred to by its position.  *)
(* attrs is the set of instance attributes that have been assigned; raw    *)
(* and label are the shapes of the arrays self.raw and self.label (<<>>    *)
(* for None).                                                              *)
(***************************************************************************)
Phases == {"train", "val", "test"}

OpenFile(path) == [path |-> path, open |-> TRUE, closes |-> 0]

CloseFile(hs, h) == [hs EXCEPT ![h] = [@ EXCEPT !.open = FALSE, !.closes = @ + 1]]

\* _check_patch_shape: TRUE when no assert fails.
CheckPatchShape(patch) ==
    /\ Len(patch) = 3
    /\ patch[2] >= MinHW /\ patch[3] >= MinHW
    /\ patch[1] >= MinDepth

\* A variant of _check_dimensionality that checks the numbers of axes only.
CheckDimensionalityAxesOnly(raw_shape, label_shape) ==
    /\ Len(raw_shape) \in {3, 4}
    /\ Len(label_shape) = 4

\* _check_dimensionality: TRUE when no assert fails.
CheckDimensionality(raw_shape, label_shape) ==
    /\ Len(raw_shape) \in {3, 4}
    /\ Len(label_shape) = 4
    /\ IF Len(raw_shape) = 3
       THEN raw_shape = SubSeq(label_shape, 2, 4)
       ELSE SubSeq(raw_shape, 2, 4) = SubSeq(label_shape, 2, 4)

NoDataset ==
    [state |-> "failed", variant |-> "", phase |-> "", attrs |-> {},
     raw_file |-> 0, label_file |-> 0, raw |-> <<>>, label |-> <<>>, raw_slices |-> NoSlices,
     label_slices |-> NoSlices, raw_transform |-> <<>>, label_transform |-> <<>>,
     patch_count |-> 0]

InitFailed(error, where, hs) ==
    [ds |-> NoDataset, handles |-> hs,
     ret |-> [op |-> "init", outcome |-> error, where |-> where]]

\* HDF5Dataset.__init__ with the arguments a; a.raw_shape and
\* a.label_shape are the shapes of the arrays stored under the internal
\* paths; a.label_file_path is "" for None.
InitDataset(a) ==
    IF a.phase \notin Phases THEN InitFailed("AssertionError", "phase", <<>>)
    ELSE IF ~CheckPatchShape(a.patch) THEN InitFailed("AssertionError", "patch_shape", <<>>)
    ELSE
    LET h1 == <<OpenFile(a.raw_file_path)>>
        rs == BuildSlices(a.raw_shape, a.patch, a.stride)
        tr == GetTransforms(a.variant, a.phase)
        d1 == [NoDataset EXCEPT !.state = "open", !.variant = a.variant,
                                !.phase = a.phase, !.raw_file = 1, !.raw = a.raw_shape,
                                !.raw_slices = rs.slices,
                                !.raw_transform = tr.raw, !.label_transform = tr.label,
                                !.attrs = {"phase", "raw_file", "raw", "raw_slices",
                                           "raw_transform", "label_transform"}]
    IN
    IF rs.raised THEN InitFailed(rs.error, "raw_slices", h1)
    ELSE IF a.phase = "test"
    THEN [ds |-> [d1 EXCEPT !.attrs = @ \cup {"label", "patch_count"},
                            !.patch_count = Cardinality(DOMAIN rs.slices)],
          handles |-> h1,
          ret |-> [op |-> "init", outcome |-> "ok", where |-> ""]]
    ELSE
    LET h2 == IF a.label_file_path = "" THEN h1
              ELSE Append(h1, OpenFile(a.label_file_path))
        lf == IF a.label_file_path = "" THEN 1 ELSE 2
        ls == BuildSlices(a.label_shape, a.patch, a.stride)
    IN
    IF ~CheckDimensionality(a.raw_shape, a.label_shape)
    THEN InitFailed("AssertionError", "dimensionality", h2)
    ELSE IF ls.raised THEN InitFailed(ls.error, "label_slices", h2)
    ELSE IF Cardinality(DOMAIN rs.slices) # Cardinality(DOMAIN ls.slices)
    THEN InitFailed("AssertionError", "patch_count", h2)
    ELSE [ds |-> [d1 EXCEPT !.attrs = @ \cup {"label_file", "label", "label_slices",
                                              "patch_count"},
                            !.label_file = lf, !.label = a.label_shape,
                            !.label_slices = ls.slices,
                            !.patch_count = Cardinality(DOMAIN rs.slices)],
          handles |-> h2,
          ret |-> [op |-> "init", outcome |-> "ok", where |-> ""]]

\* A variant of __len__ that counts the label mapping.
LenOfLabel(d) == Cardinality(DOMAIN d.label_slices)

\* HDF5Dataset.__len__
LenOf(d) == d.patch_count

GetFailed(d, idx, error, reads) ==
    [ds |-> d,
     ret |-> [op |-> "get", idx |-> idx, outcome |-> error, reads |-> reads,
              raw_idx |-> <<>>, label_idx |-> <<>>, raw_applied |-> <<>>,
              label_applied |-> <<>>, second |-> ""]]

\* HDF5Dataset.__getitem__(idx) on the dataset d: the dataset after the
\* call and what the call did.  reads counts the reads against the array
\* sources; raw_applied and label_applied are the decisions the pipelines
\* applied; second names the second element of the pair returned.
GetItem(d, idx) ==
    IF idx >= LenOf(d) THEN GetFailed(d, idx, "StopIteration", 0)
    ELSE IF idx \notin DOMAIN d.raw_slices THEN GetFailed(d, idx, "KeyError", 0)
    ELSE
    LET d1 == [d EXCEPT !.raw_transform = PipelineAfter(d.raw_transform)]
    IN
    IF d.phase # "test"
    THEN IF idx \notin DOMAIN d.label_slices THEN GetFailed(d1, idx, "KeyError", 1)
         ELSE [ds |-> [d1 EXCEPT !.label_transform = PipelineAfter(d.label_transform)],
               ret |-> [op |-> "get", idx |-> idx, outcome |-> "ok", reads |-> 2,
                        raw_idx |-> d.raw_slices[idx], label_idx |-> d.label_slices[idx],
                        raw_applied |-> PipelineDecisions(d.raw_transform),
                        label_applied |-> PipelineDecisions(d.label_transform),
                        second |-> "label"]]
    ELSE [ds |-> d1,
          ret |-> [op |-> "get", idx |-> idx, outcome |-> "ok", reads |-> 1,
                   raw_idx |-> d.raw_slices[idx], label_idx |-> <<>>,
                   raw_applied |-> PipelineDecisions(d.raw_transform),
                   label_applied |-> <<>>, second |-> "raw_idx"]]

\* HDF5Dataset.close(): the raw file is closed first; reading
\* self.label_file raises AttributeError when it was never assigned.
CloseDataset(d, hs) ==
    LET hs1 == CloseFile(hs, d.raw_file)
    IN  IF "label_file" \notin d.attrs
        THEN [handles |-> hs1, outcome |-> "AttributeError"]
        ELSE IF d.raw_file # d.label_file
        THEN [handles |-> CloseFile(hs1, d.label_file), outcome |-> "ok"]
        ELSE [handles |-> hs1, outcome |-> "ok"]

(***************************************************************************)
(* SpecData: one dataset object.  Construct calls the constructor of       *)
(* either class on any arguments of the bounded sets; on a constructed     *)
(* dataset the caller then calls dataset[idx], len(dataset) and, once,     *)
(* close().                                                                *)
(***************************************************************************)
DataSpatial ==
    {<<MinDepth + dz, MinHW + dy, MinHW>> : dz \in 0..DataMaxExtra, dy \in 0..DataMaxExtra}

DataRawShapes ==
    DataSpatial \cup {<<c>> \o sp : c \in ChannelCounts, sp \in DataSpatial}
        \cup {<<MinHW, MinHW>>}

DataLabelShapes ==
    {<<c>> \o sp : c \in ChannelCounts, sp \in DataSpatial}
        \cup {<<MinDepth, MinHW, MinHW>>}

DataPatchShapes ==
    {<<MinDepth, MinHW, MinHW>>, <<MinDepth + 1, MinHW, MinHW>>,
     <<MinDepth, MinHW + 1, MinHW>>, <<MinDepth, MinHW, MinHW + 1>>,
     <<MinDepth - 1, MinHW, MinHW>>, <<MinDepth, MinHW - 1, MinHW>>,
     <<MinDepth, MinHW, MinHW - 1>>, <<MinDepth, MinHW>>}

DataStrideShapes == {<<sz, sy, 1>> : sz \in 1..DataMaxStride, sy \in 1..DataMaxStride}

DataArgs ==
    [variant : {"plain", "augmented"},
     raw_file_path : {"raw.h5"},
     label_file_path : {"", "label.h5"},
     phase : Phases \cup {"predict"},
     raw_shape : DataRawShapes,
     label_shape : DataLabelShapes,
     patch : DataPatchShapes,
     stride : DataStrideShapes]

DataInit ==
    /\ ds = [NoDataset EXCEPT !.state = "new"]
    /\ handles = <<>>
    /\ ret = IdleRet
    /\ gen = IdleGen
    /\ out = <<>>
    /\ bld = IdleBld

Construct ==
    /\ ds.state = "new"
    /\ \E a \in DataArgs :
         \E r \in {InitDataset(a)} :
            /\ ds' = r.ds
            /\ handles' = r.handles
            /\ ret' = r.ret
    /\ UNCHANGED <<gen, out, bld>>

Get ==
    /\ ds.state = "open"
    /\ \E idx \in (0 - IdxSlack)..(ds.patch_count + IdxSlack) :
         \E r \in {GetItem(ds, idx)} :
            /\ ds' = r.ds
            /\ ret' = r.ret
    /\ UNCHANGED <<handles, gen, out, bld>>

Length ==
    /\ ds.state = "open"
    /\ ret' = [op |-> "len", value |-> LenOf(ds)]
    /\ UNCHANGED <<ds, handles, gen, out, bld>>

Close ==
    /\ ds.state = "open"
    /\ \E r \in {CloseDataset(ds, handles)} :
         /\ handles' = r.handles
         /\ ret' = [op |-> "close", outcome |-> r.outcome]
    /\ ds' = [ds EXCEPT !.state = "closed"]
    /\ UNCHANGED <<gen, out, bld>>

DataNext == Construct \/ Get \/ Length \/ Close

SpecData == DataInit /\ [][DataNext]_vars

(***************************************************************************)
(* Properties of _gen_indices (SpecGen).                                   *)
(***************************************************************************)
StrictlyIncreasing(s) == \A n \in 1..(Len(s) - 1) : s[n] < s[n + 1]

\* C1: for 1 <= k <= i and s >= 1 the starts yielded by _gen_indices(i, k, s)
\* are exactly the multiples m*s with m*s + k <= i, followed by i - k if and
\* only if the last multiple is smaller than i - k; so every start j has
\* 0 <= j and j + k <= i, the starts strictly increase, the last start is
\* i - k, and i = k gives exactly <<0>>.  The generator raises only when
\* i < k.
C1_GenIndicesStarts ==
    /\ gen.pc = "raised" => gen.i < gen.k
    /\ gen.pc = "done" =>
         /\ gen.i >= gen.k
         /\ out = ExpectedStarts(gen.i, gen.k, gen.s)
         /\ \A n \in 1..Len(out) : 0 <= out[n] /\ out[n] + gen.k <= gen.i
         /\ StrictlyIncreasing(out)
         /\ Len(out) >= 1
         /\ out[Len(out)] = gen.i - gen.k
         /\ (gen.i = gen.k => out = <<0>>)

\* A finished generator that yielded several regular starts and then the
\* tail start, closer to its predecessor than one stride.
C1_Witness ==
    /\ gen.pc = "done"
    /\ Len(out) >= 3
    /\ out[Len(out)] - out[Len(out) - 1] < gen.s
    /\ out[Len(out)] = gen.i - gen.k

\* C2 as stated: for every k <= i and every positive stride, s > k
\* included, the windows [j, j + k) over the yielded starts cover every
\* position 0 <= p < i, with at most one window beyond the regular stride
\* sequence.
C2_CoverageAnyStride ==
    gen.pc = "done" =>
       /\ \A p \in 0..(gen.i - 1) : Covered(out, gen.k, p)
       /\ Len(out) <= RegularCount(gen.i, gen.k, gen.s) + 1

\* C2 amended: the windows cover every position 0 <= p < i when s <= k; for
\* every positive stride the first and the last position of the axis are
\* covered, at most one window beyond the regular stride sequence is added,
\* and a position is left out only between two consecutive starts that are
\* more than k apart (which needs s > k).
C2_CoverageStrideWithinPatch ==
    gen.pc = "done" =>
       /\ gen.s <= gen.k => \A p \in 0..(gen.i - 1) : Covered(out, gen.k, p)
       /\ Covered(out, gen.k, 0)
       /\ Covered(out, gen.k, gen.i - 1)
       /\ Len(out) <= RegularCount(gen.i, gen.k, gen.s) + 1
       /\ \A p \in 0..(gen.i - 1) :
            ~Covered(out, gen.k, p) =>
               /\ gen.s > gen.k
               /\ \E n \in 1..(Len(out) - 1) : out[n] + gen.k <= p /\ p < out[n + 1]

\* A finished generator with 1 < s <= k whose stride does not divide i - k:
\* the tail window is what covers the end of the axis.
C2_Witness ==
    /\ gen.pc = "done"
    /\ 1 < gen.s /\ gen.s <= gen.k
    /\ Len(out) >= 3
    /\ LastRegular(gen.i, gen.k, gen.s) + gen.k < gen.i
    /\ \A p \in 0..(gen.i - 1) : Covered(out, gen.k, p)

(***************************************************************************)
(* Properties of _build_slices (SpecBuild).                                *)
(***************************************************************************)
AxisStarts(b, n) == ExpectedStarts(Spatial(b.shape)[n], b.patch[n], b.stride[n])

ShortAxes(b) == {n \in 1..3 : Spatial(b.shape)[n] < b.patch[n]}

Last3(s) == SubSeq(s, Len(s) - 2, Len(s))

\* C3: for a 3- or 4-axis shape whose spatial axes are >= the patch, the
\* returned dict has exactly the keys 0..N-1 with N = nz * ny * nx (the
\* channel count does not change N), and key idx holds the window of the
\* idx-th (z, y, x) start triple, Z slowest and X fastest:
\* idx = (rank(z) * ny + rank(y)) * nx + rank(x), each spatial entry being
\* (start, start + patch length).
C3_LexicographicGrid ==
    (bld.pc = "done") =>
       LET zs == AxisStarts(bld, 1)
           ys == AxisStarts(bld, 2)
           xs == AxisStarts(bld, 3)
           nz == Len(zs)
           ny == Len(ys)
           nx == Len(xs)
           k  == bld.patch
       IN  /\ DOMAIN bld.slices = 0..(nz * ny * nx - 1)
           /\ \A rz \in 1..nz : \A ry \in 1..ny : \A rx \in 1..nx :
                LET idx == ((rz - 1) * ny + (ry - 1)) * nx + (rx - 1)
                IN  /\ Len(bld.slices[idx]) = Len(bld.shape)
                    /\ Last3(bld.slices[idx]) =
                          << <<zs[rz], zs[rz] + k[1]>>, <<ys[ry], ys[ry] + k[2]>>,
                             <<xs[rx], xs[rx] + k[3]>> >>

\* A returned grid of a 4-axis shape with 1, 2 and 3 windows along Z, Y, X.
C3_Witness ==
    /\ bld.pc = "done"
    /\ Len(bld.shape) = 4
    /\ Len(AxisStarts(bld, 1)) = 1
    /\ Len(AxisStarts(bld, 2)) = 2
    /\ Len(AxisStarts(bld, 3)) = 3
    /\ DOMAIN bld.slices = 0..5

\* C8: when any one spatial axis is shorter than the patch dimension the
\* call ends with the AssertionError of _gen_indices and returns no mapping:
\* it never reaches `return slices`, it raises at the first next() on the
\* generator of the first short axis (which the enclosing loops reach on
\* their first iteration), and no slice has been stored by then.  It raises
\* for no other reason, and the call as a whole, from its first step, ends
\* raised exactly when an axis is short.
C8_ShortAxisRaises ==
    /\ ShortAxes(bld) # {} =>
         /\ bld.pc # "done"
         /\ bld.slices = NoSlices /\ bld.idx = 0
         /\ bld.pc = "z" => bld.zg.pc = "start"
         /\ bld.pc = "y" => bld.yg.pc = "start" /\ bld.zg.pc = "loop" /\ bld.z = 0
         /\ bld.pc = "x" => bld.xg.pc = "start" /\ bld.yg.pc = "loop" /\ bld.y = 0
                              /\ bld.z = 0
    /\ bld.pc = "raised" =>
         /\ ShortAxes(bld) # {}
         /\ bld.error = "AssertionError"
    /\ (bld.pc = "z" /\ bld.zg.pc = "start") =>
         BuildSlices(bld.shape, bld.patch, bld.stride).raised = (ShortAxes(bld) # {})

\* A call that raised although only the X axis is short: the X generator
\* was first iterated inside the first iterations of the Z and Y loops.
C8_Witness ==
    /\ bld.pc = "raised"
    /\ ShortAxes(bld) = {3}
    /\ bld.zg.pc = "loop" /\ bld.yg.pc = "loop" /\ bld.xg.pc = "raised"

(***************************************************************************)
(* Properties of the dataset (SpecData).                                   *)
(***************************************************************************)
Constructed == ds.state \in {"open", "closed"}

PatchRange == 0..(ds.patch_count - 1)

\* C4: raw (3D, or 4D with C_raw channels) and label (4D, C_label channels)
\* shapes that pass the congruence check give mappings of equal cardinality
\* with identical spatial regions at every index; a 4D array's descriptor
\* is the spatial triple prefixed by (0, C) of that array, a 3D array's has
\* no prefix; the patch-count assertion of the constructor never fails.
C4_CongruentGrids ==
    /\ ret.op = "init" => ret.where # "patch_count"
    /\ (Constructed /\ ds.phase # "test") =>
         /\ CheckDimensionality(ds.raw, ds.label)
         /\ DOMAIN ds.raw_slices = DOMAIN ds.label_slices
         /\ ds.patch_count = Cardinality(DOMAIN ds.label_slices)
         /\ \A i \in DOMAIN ds.raw_slices :
              LET r == ds.raw_slices[i]
                  l == ds.label_slices[i]
              IN  /\ Last3(r) = Last3(l)
                  /\ Len(l) = 4 /\ l[1] = <<0, ds.label[1]>>
                  /\ Len(r) = Len(ds.raw)
                  /\ Len(ds.raw) = 4 => r[1] = <<0, ds.raw[1]>>

\* A dataset over a 3-channel raw array and a 1-channel label array with
\* several patches.
C4_Witness ==
    /\ Constructed /\ ds.phase = "train"
    /\ Len(ds.raw) = 4 /\ ds.raw[1] = 3 /\ ds.label[1] = 1
    /\ ds.patch_count >= 4
    /\ ds.raw_slices[3][1] = <<0, 3>> /\ ds.label_slices[3][1] = <<0, 1>>

\* C5: dataset[index] fails with the exhaustion error (StopIteration) and
\* reads nothing for every index outside [0, N), index >= N and index < 0
\* alike, and succeeds for every index in [0, N).
C5_OutOfRangeStops ==
    ret.op = "get" =>
       IF ret.idx \in PatchRange
       THEN ret.outcome = "ok"
       ELSE ret.outcome = "StopIteration" /\ ret.reads = 0

\* C6: on a dataset constructed in any phase, with or without a separate
\* label file, close() completes without error, closes the raw file exactly
\* once, closes the label file exactly once if and only if there is one and
\* it is not the raw file, and leaves no file of the instance open.
C6_CloseReleasesAll ==
    ret.op = "close" =>
       /\ ret.outcome = "ok"
       /\ handles[ds.raw_file].closes = 1
       /\ \A h \in DOMAIN handles : ~handles[h].open /\ handles[h].closes = 1

StochasticSteps == {"RandomFlip", "RandomRotate90"}

StepStates(p, name) == {p[n].state : n \in {m \in 1..Len(p) : p[m].name = name}}

StepDecisions(applied, name) ==
    {applied[n][2] : n \in {m \in 1..Len(applied) : applied[m][1] = name}}

\* C7: in an augmented dataset in phase train, after any sequence of
\* accesses the random state of each stochastic step (flip, rotate-90) of
\* the raw pipeline equals that of the same step of the label pipeline, and
\* every successful access applies the same flip axis and rotation count to
\* the raw and the label patch; in phases val and test the augmented class
\* builds the pipelines of the plain class, without a stochastic step.
C7_AugmentationInStep ==
    (Constructed /\ ds.variant = "augmented") =>
       IF ds.phase = "train"
       THEN \A name \in StochasticSteps :
              /\ Cardinality(StepStates(ds.raw_transform, name)) = 1
              /\ StepStates(ds.raw_transform, name) = StepStates(ds.label_transform, name)
              /\ (ret.op = "get" /\ ret.outcome = "ok") =>
                    /\ Cardinality(StepDecisions(ret.raw_applied, name)) = 1
                    /\ StepDecisions(ret.raw_applied, name)
                          = StepDecisions(ret.label_applied, name)
       ELSE /\ ds.raw_transform = PlainGetTransforms(ds.phase).raw
            /\ ds.label_transform = PlainGetTransforms(ds.phase).label
            /\ \A n \in 1..Len(ds.raw_transform) : ~ds.raw_transform[n].random
            /\ \A n \in 1..Len(ds.label_transform) : ~ds.label_transform[n].random

\* An augmented train dataset after a successful access that advanced the
\* random states away from the seeded state.
C7_Witness ==
    /\ Constructed /\ ds.variant = "augmented" /\ ds.phase = "train"
    /\ ret.op = "get" /\ ret.outcome = "ok"
    /\ StepStates(ds.raw_transform, "RandomFlip") # {RandomState(Seed)}
    /\ StepStates(ds.label_transform, "RandomRotate90") # {RandomState(Seed)}

StepNames(p) == [n \in 1..Len(p) |-> p[n].name]

\* C9: after construction a dataset[index] call (in range or not, in any
\* phase) or a len() call leaves the raw and label mappings, the phase and
\* patch_count unchanged (and every other attribute and the files), len()
\* returns the cardinality of the raw mapping, and the only thing a
\* dataset[index] call changes is the random state inside the pipelines.
C9_AccessFrame ==
    [][(ds.state = "open" /\ ret'.op \in {"get", "len"}) =>
          /\ \A f \in DOMAIN ds \ {"raw_transform", "label_transform"} : ds'[f] = ds[f]
          /\ StepNames(ds'.raw_transform) = StepNames(ds.raw_transform)
          /\ StepNames(ds'.label_transform) = StepNames(ds.label_transform)
          /\ handles' = handles
          /\ ret'.op = "len" =>
                /\ ret'.value = Cardinality(DOMAIN ds.raw_slices)
                /\ ds' = ds]_vars

\* len() on a test-phase dataset of several patches, answered after
\* accesses.
C9_Witness ==
    /\ ds.state = "open" /\ ds.phase = "test"
    /\ ret.op = "len" /\ ret.value >= 4
    /\ ret.value = Cardinality(DOMAIN ds.raw_slices)

\* C10: whenever the constructor fails, no file opened during that
\* construction remains open afterwards.
C10_FailedInitLeavesNothingOpen ==
    (ret.op = "init" /\ ret.outcome # "ok") =>
       \A h \in DOMAIN handles : ~handles[h].open

=============================================================================
